---- MODULE Spec2Model ----
(***************************************************************************)
(* Model of cloud-monte-carlo: the file-backed job queue of app/app.py     *)
(* (submit endpoint, worker_loop), the JSON helpers of app/utils.py and    *)
(* the simulation engine of app/simulation.py.                             *)
(*                                                                         *)
(* Lengths are in hundredths of a millimetre (thickness 1.0 is 100).       *)
(* Every file-system call (open, write, rename, listdir, getctime, remove) *)
(* is one atomic step; Python statements between two calls belong to the   *)
(* step of the call that follows them.                                     *)
(***************************************************************************)
EXTENDS Integers, Sequences, FiniteSets, TLC

(* ---------------------------------------------------------------------- *)
(* Bounds of the model                                                    *)
(* ---------------------------------------------------------------------- *)
MaxTime == 1          \* the clock runs over 0..MaxTime

\* the requests to /api/submit; request j gets job id j if it is accepted
\* (new_job_id, utils.py 20-22, returns a fresh id for every call)
Jobs == {1, 2}
\* `jobid` of a worker that holds no job
NoJob == 0

\* worker threads. start_worker() starts one; app.run(debug=True) makes the
\* reloader run the script in a parent and in a child process, each calls
\* start_worker(), and both threads poll the same directories.
Workers == {"w1", "w2"}

(* ---------------------------------------------------------------------- *)
(* Configuration (app.py)                                                 *)
(* ---------------------------------------------------------------------- *)
MAX_SAMPLES == 1000
ALLOWED_MATERIALS == {"Aluminum", "Lead", "Water"}
ALLOWED_THICKNESSES == {10, 50, 100, 200}

\* request payloads tried by the model: a valid request, and requests that
\* differ from it in one field or in all of them. The fields hold what lines
\* 51-54 make of the JSON values: thickness a number (float), samples an
\* integer (int of an integer is that integer), parallel a boolean.
BasePayload == [material |-> "Water", thickness |-> 100, samples |-> 1, parallel |-> FALSE]
Payloads ==
    { BasePayload,
      [BasePayload EXCEPT !.samples = MAX_SAMPLES, !.parallel = TRUE],
      [BasePayload EXCEPT !.material = "Gold"],
      [BasePayload EXCEPT !.thickness = 300],
      [BasePayload EXCEPT !.samples = 0],
      [BasePayload EXCEPT !.samples = MAX_SAMPLES + 1],
      [material |-> "Gold", thickness |-> 300, samples |-> 0, parallel |-> TRUE] }
NoPayload == [material |-> "", thickness |-> 0, samples |-> 0, parallel |-> FALSE]

VARIABLES
    started,    \* the worker threads start_worker() has started (lines 207-213)
    requests,   \* the requests the clients send to /api/submit in this run
    aws,        \* TRUE when the AWS endpoints (DynamoDB, S3) answer
    now,        \* time.time() and the clock of the file system
    subPc,      \* subPc[j]: position of request j in submit()
    subObj,     \* subObj[j]: payload and created_at of request j (lines 48-74)
    jobsDir,    \* data/jobs: ids j with a file j.json (the queued area)
    procDir,    \* data/processing: ids with a file (the claimed area)
    descFile,   \* descFile[j]: content of the descriptor file of job j
    ctime,      \* ctime[j]: getctime of data/jobs/j.json
    statusDir,  \* data/status: statusDir[j] is the content of j.json
    resultsDir, \* data/results: resultsDir[j] is the content of j.json
    reached,    \* reached[j]: the furthest status flushed so far (history)
    resultWrites, \* resultWrites[j]: flushes of the result file so far (history)
    ddb,        \* job ids whose metadata reached the DynamoDB table
    s3,         \* job ids whose result reached the S3 bucket
    wPc,        \* wPc[w]: position of worker w in worker_loop
    wFiles,     \* wFiles[w]: `files` of the current iteration
    wJob,       \* wJob[w]: `jobid` of the current iteration
    engCall,    \* the arguments of the run_simulation calls and cpu_count()
    engPc,      \* engPc[i]: position of the i-th call in run_simulation
    engLoc,     \* engLoc[i]: its locals n_workers, chunks, transmitted_total, all_paths
    engRes      \* engRes[i]: the result it returned

env == <<started, requests, aws>>
store == <<jobsDir, procDir, descFile, ctime, statusDir, resultsDir>>
subVars == <<subPc, subObj, ddb>>
wVars == <<wPc, wFiles, wJob>>
histVars == <<reached, resultWrites>>
jobVars == <<started, requests, aws, now, subPc, subObj, jobsDir, procDir, descFile,
             ctime, statusDir, resultsDir, reached, resultWrites, ddb, s3, wPc, wFiles,
             wJob>>
engVars == <<engCall, engPc, engLoc, engRes>>
vars == <<jobVars, engVars>>

(* ---------------------------------------------------------------------- *)
(* utils.py: write_json / read_json                                       *)
(* ---------------------------------------------------------------------- *)
\* A file is "none" (no such file), "empty" (created or truncated by
\* open(path, "w"), nothing flushed yet), "full" (json.dump flushed by the
\* close of the with block) or "corrupt" (bytes of two writers mixed).
NoObj == [payload |-> NoPayload, created_at |-> 0]
NoDesc == [state |-> "none", payload |-> NoPayload, created_at |-> 0]
NoStatus == [state |-> "none", status |-> ""]
NoResult == [state |-> "none", material |-> "", thickness |-> 0, samples |-> 0,
             parallel_used |-> FALSE]

\* The records are modelled without the fields nothing in the program reads
\* back: created_at / start_time / completed_at of a status record,
\* completed_at, plot, job_id and the numbers of the simulation in a result
\* record (the engine is modelled below, on its own).
StatusRecord(status) == [state |-> "full", status |-> status]

\* the statuses in the order of the job's life
Rank(status) ==
    CASE status = "queued" -> 1 [] status = "running" -> 2 [] status = "done" -> 3
      [] OTHER -> 0
Max(a, b) == IF a >= b THEN a ELSE b

\* line 38, open(path, "w"): creates the file or truncates it
OpenW(blank) == [blank EXCEPT !.state = "empty"]

\* line 39, json.dump and the close: the bytes go through the descriptor
\* opened at line 38. When nothing was flushed since that truncation the
\* file holds obj. When another writer flushed its record in between, both
\* wrote from offset 0: the file holds obj when obj is at least as long as
\* the other record, and obj followed by the tail of the other record (no
\* JSON) when it is shorter; the lengths depend on the digits of the
\* timestamps, so both can happen.
Dump(file, obj, blank) ==
    IF file.state = "empty" THEN {obj}
    ELSE {obj, [blank EXCEPT !.state = "corrupt"]}

\* lines 43-44, read_json: json.load raises on an empty or corrupt file
Readable(file) == file.state = "full"

\* the status a GET /api/status/<job_id> shows (lines 96-101)
StatusOf(j) == IF Readable(statusDir[j]) THEN statusDir[j].status ELSE statusDir[j].state

(* ---------------------------------------------------------------------- *)
(* simulation.py: the engine                                              *)
(* ---------------------------------------------------------------------- *)
\* Bounds of the engine runs
MaxSamples == 17      \* samples of a call runs over 1..MaxSamples
MaxWorkers == 5       \* an explicit n_workers runs over 1..MaxWorkers

\* An optional argument: None, or a value
None == [given |-> FALSE, value |-> 0]
Some(v) == [given |-> TRUE, value |-> v]

EngMaterials == {"Aluminum", "Lead", "Water", "Gold"}
EngThicknesses == {100, 200}
EngSeeds == {None, Some(-1), Some(0), Some(1), Some(2)}
CpuCounts == {1, 2, 8}
\* values of the operating system's entropy (SeedSequence().entropy,
\* default_rng() without a seed)
Entropy == {3, 4}
Calls == 1..2

\* (mutant) the table holds a coefficient for a fourth material
MATERIAL_MU_Wide ==
    ("Aluminum" :> 15) @@ ("Lead" :> 120) @@ ("Water" :> 8) @@ ("Gold" :> 200)

\* lines 9-13, in 1/100 per mm
MATERIAL_MU == ("Aluminum" :> 15) @@ ("Lead" :> 120) @@ ("Water" :> 8)

\* The generator. numpy's bit generator is modelled by a small congruential
\* one: default_rng(seed) sets the state from the seed, every draw advances
\* it, and the draw is the quantile of Exp(1) (in hundredths) the state
\* selects. default_rng rejects a negative seed with ValueError.
SeedRng(seed) == (seed * 37 + 11) % 64
RngNext(x) == (x * 21 + 13) % 64
ExpQuantile == <<6, 21, 37, 58, 83, 116, 167, 277>>
StandardExponential(x) == ExpQuantile[(x \div 8) + 1]

\* (mutant) the seed is tested for truth, so seed 0 counts as no seed
RngForTruthy(rng_seed, entropy) ==
    IF rng_seed.given /\ rng_seed.value # 0 THEN SeedRng(rng_seed.value) ELSE SeedRng(entropy)

\* lines 21-24: the generator of a chunk; entropy is what default_rng() draws
RngFor(rng_seed, entropy) ==
    IF rng_seed.given THEN SeedRng(rng_seed.value) ELSE SeedRng(entropy)

\* line 30: rng.exponential(scale=1.0/mu, size=samples), in hundredths of mm
RECURSIVE Exponential(_, _, _)
Exponential(x, mu, size) ==
    IF size = 0 THEN <<>>
    ELSE <<(100 * StandardExponential(RngNext(x))) \div mu>>
             \o Exponential(RngNext(x), mu, size - 1)

CountGreater(paths, thickness) ==
    Cardinality({k \in DOMAIN paths : paths[k] > thickness})

\* lines 15-32: single_chunk_sim. Every coefficient of MATERIAL_MU is
\* positive, so the branch of lines 26-28 is never taken.
SingleChunkSim(samples, mu, thickness, rng_seed, entropy) ==
    IF rng_seed.given /\ rng_seed.value < 0
    THEN [raised |-> TRUE, transmitted |-> 0, paths |-> <<>>]
    ELSE LET paths == Exponential(RngFor(rng_seed, entropy), mu, samples)
         IN [raised |-> FALSE, transmitted |-> CountGreater(paths, thickness),
             paths |-> paths]

\* line 57: the default number of workers
DefaultWorkers(cpu_avail) ==
    LET m == IF cpu_avail > 1 THEN cpu_avail ELSE 1 IN IF m < 4 THEN m ELSE 4

\* line 62: seed or np.random.SeedSequence().entropy
OffsetSeed(seed, entropy) ==
    IF seed.given /\ seed.value # 0 THEN seed.value ELSE entropy

\* (mutant) one chunk too many gets an extra trial
ChunkCountOffByOne(i, base, rem) == base + (IF i <= rem THEN 1 ELSE 0)

\* line 64: the size of chunk i (from 0)
ChunkCount(i, base, rem) == base + (IF i < rem THEN 1 ELSE 0)

\* lines 59-66: the chunks, <<cnt, seed>>, empty ones left out
Chunks(samples, n_workers, offset_seed) ==
    LET base == samples \div n_workers
        rem == samples % n_workers
        all == [k \in 1..n_workers |-> <<ChunkCount(k - 1, base, rem), offset_seed + (k - 1)>>]
        NonEmpty(c) == c[1] > 0
    IN SelectSeq(all, NonEmpty)

RECURSIVE SumSeq(_)
SumSeq(q) == IF q = <<>> THEN 0 ELSE Head(q) + SumSeq(Tail(q))

RECURSIVE Concat(_)
Concat(qs) == IF qs = <<>> THEN <<>> ELSE Head(qs) \o Concat(Tail(qs))

\* line 85: np.percentile(all_paths, 95), times 20: linear interpolation
\* between the two order statistics around position 0.95 * (n - 1)
Ascending(a, b) == a < b
Percentile95(paths) ==
    LET sorted == SortSeq(paths, Ascending)
        pos == 19 * (Len(paths) - 1)
        lo == (pos \div 20) + 1
        r == pos % 20
    IN 20 * sorted[lo] + (IF r = 0 THEN 0 ELSE r * (sorted[lo + 1] - sorted[lo]))

\* line 85: the top edge, times 20
TopEdge(thickness, paths) ==
    Max(40 * thickness, IF Len(paths) > 0 THEN Percentile95(paths) ELSE 20 * thickness)

\* (mutant) one edge too many
LinspaceLong(top) == [k \in 1..21 |-> (k - 1) * top]

\* line 85: np.linspace(0, top, 20); edge k is (k - 1) * top / 19, kept as
\* (k - 1) * top, so an edge is in units of 1 / (19 * 20) hundredths of mm
Linspace(top) == [k \in 1..20 |-> (k - 1) * top]

\* line 86: np.histogram(all_paths, bins): bin b holds the values v with
\* edge b <= v < edge b + 1, the last bin its upper edge too; values beyond
\* the last edge are in no bin
Histogram(paths, edges) ==
    LET nbins == Len(edges) - 1
        InBin(v, b) ==
            /\ edges[b] <= 380 * v
            /\ IF b = nbins THEN 380 * v <= edges[b + 1] ELSE 380 * v < edges[b + 1]
    IN [b \in 1..nbins |-> Cardinality({k \in DOMAIN paths : InBin(paths[k], b)})]

NoCall == [material |-> "", thickness |-> 0, samples |-> 0, seed |-> None,
           parallel |-> FALSE, n_workers |-> None, cpu |-> 0]
NoLoc == [n_workers |-> 0, chunks |-> <<>>, transmitted |-> 0, paths |-> <<>>]
NoRes == [state |-> "none", material |-> "", thickness |-> 0, samples |-> 0,
          transmitted |-> 0, transmitted_fraction |-> <<0, 1>>, bins |-> <<>>,
          counts |-> <<>>, parallel_used |-> FALSE, workers |-> 0]

\* lines 106-117: the result; transmitted_fraction is kept as the pair
\* <<transmitted_total, samples>>, runtime_seconds is left out
Result(call, loc) ==
    LET edges == Linspace(TopEdge(call.thickness, loc.paths))
    IN [state |-> "ok", material |-> call.material, thickness |-> call.thickness,
        samples |-> call.samples, transmitted |-> loc.transmitted,
        transmitted_fraction |-> <<loc.transmitted, call.samples>>,
        bins |-> edges, counts |-> Histogram(loc.paths, edges),
        parallel_used |-> call.parallel,
        workers |-> IF call.parallel THEN loc.n_workers ELSE 1]

\* the ways run_simulation is called: sequential, parallel with n_workers
\* given, parallel with n_workers left to cpu_count()
CallModes ==
    {[parallel |-> FALSE, n_workers |-> None, cpu |-> 1]}
    \cup {[parallel |-> TRUE, n_workers |-> Some(n), cpu |-> 1] : n \in 1..MaxWorkers}
    \cup {[parallel |-> TRUE, n_workers |-> None, cpu |-> c] : c \in CpuCounts}

EngineIdle ==
    /\ engPc = [i \in Calls |-> "idle"]
    /\ engLoc = [i \in Calls |-> NoLoc]
    /\ engRes = [i \in Calls |-> NoRes]

\* lines 43-66: the arguments are read, the material is looked up, and in
\* parallel mode the chunks are made. The i-th call starts when the one
\* before it has ended.
EngineStart(i, entropy) ==
    /\ engPc[i] = "idle"
    /\ engCall # NoCall
    /\ i > 1 => engPc[i - 1] \in {"done", "raised"}
    /\ IF engCall.material \notin DOMAIN MATERIAL_MU
       THEN /\ engPc' = [engPc EXCEPT ![i] = "raised"]
            /\ engLoc' = engLoc
       ELSE IF engCall.parallel
       THEN LET n == IF engCall.n_workers.given THEN engCall.n_workers.value
                     ELSE DefaultWorkers(engCall.cpu)
            IN /\ engPc' = [engPc EXCEPT ![i] = "pool"]
               /\ engLoc' = [engLoc EXCEPT ![i] =
                     [NoLoc EXCEPT !.n_workers = n,
                                   !.chunks = Chunks(engCall.samples, n,
                                                     OffsetSeed(engCall.seed, entropy))]]
       ELSE /\ engPc' = [engPc EXCEPT ![i] = "single"]
            /\ engLoc' = engLoc
    /\ UNCHANGED <<jobVars, engCall, engRes>>

\* lines 68-78: the pool runs single_chunk_sim on every chunk; the counts are
\* summed and the paths concatenated in the order of the chunks. An
\* exception in a chunk is raised again by starmap.
EnginePool(i) ==
    /\ engPc[i] = "pool"
    /\ LET chunks == engLoc[i].chunks
           results == [k \in DOMAIN chunks |->
                          SingleChunkSim(chunks[k][1], MATERIAL_MU[engCall.material],
                                         engCall.thickness, Some(chunks[k][2]), 0)]
       IN IF \E k \in DOMAIN results : results[k].raised
          THEN /\ engPc' = [engPc EXCEPT ![i] = "raised"]
               /\ engLoc' = engLoc
          ELSE /\ engPc' = [engPc EXCEPT ![i] = "finish"]
               /\ engLoc' = [engLoc EXCEPT ![i].transmitted =
                                SumSeq([k \in DOMAIN results |-> results[k].transmitted]),
                             ![i].paths = Concat([k \in DOMAIN results |-> results[k].paths])]
    /\ UNCHANGED <<jobVars, engCall, engRes>>

\* line 80: the sequential run
EngineSingle(i, entropy) ==
    /\ engPc[i] = "single"
    /\ LET r == SingleChunkSim(engCall.samples, MATERIAL_MU[engCall.material],
                               engCall.thickness, engCall.seed, entropy)
       IN IF r.raised
          THEN /\ engPc' = [engPc EXCEPT ![i] = "raised"]
               /\ engLoc' = engLoc
          ELSE /\ engPc' = [engPc EXCEPT ![i] = "finish"]
               /\ engLoc' = [engLoc EXCEPT ![i].transmitted = r.transmitted,
                                           ![i].paths = r.paths]
    /\ UNCHANGED <<jobVars, engCall, engRes>>

\* lines 82-118: the fraction, the histogram and the result
EngineFinish(i) ==
    /\ engPc[i] = "finish"
    /\ engPc' = [engPc EXCEPT ![i] = "done"]
    /\ engRes' = [engRes EXCEPT ![i] = Result(engCall, engLoc[i])]
    /\ UNCHANGED <<jobVars, engCall, engLoc>>

(* ---------------------------------------------------------------------- *)
(* app.py: submit()                                                       *)
(* ---------------------------------------------------------------------- *)
\* (mutant) the upper limit of samples is not checked
RejectReasonNoUpperLimit(p) ==
    IF p.material \notin ALLOWED_MATERIALS THEN "invalid material"
    ELSE IF p.thickness \notin ALLOWED_THICKNESSES THEN "invalid thickness"
    ELSE IF p.samples <= 0 THEN "samples out of allowed range"
    ELSE ""

\* lines 56-61: the three checks, in the code's order
RejectReason(p) ==
    IF p.material \notin ALLOWED_MATERIALS THEN "invalid material"
    ELSE IF p.thickness \notin ALLOWED_THICKNESSES THEN "invalid thickness"
    ELSE IF p.samples <= 0 \/ p.samples > MAX_SAMPLES THEN "samples out of allowed range"
    ELSE ""

\* the response of request j: 400 with an error and no job id (lines 57-61),
\* 202 with the job id (line 94), 0 while no response was sent
Response(j) ==
    CASE subPc[j] = "rejected" -> [code |-> 400, job_id |-> NoJob]
      [] subPc[j] = "returned" -> [code |-> 202, job_id |-> j]
      [] OTHER -> [code |-> 0, job_id |-> NoJob]

InitStore ==
    /\ now = 0
    /\ subPc = [j \in Jobs |-> "idle"]
    /\ subObj = [j \in Jobs |-> NoObj]
    /\ jobsDir = {}
    /\ procDir = {}
    /\ descFile = [j \in Jobs |-> NoDesc]
    /\ ctime = [j \in Jobs |-> 0]
    /\ statusDir = [j \in Jobs |-> NoStatus]
    /\ resultsDir = [j \in Jobs |-> NoResult]
    /\ reached = [j \in Jobs |-> 0]
    /\ resultWrites = [j \in Jobs |-> 0]
    /\ ddb = {}
    /\ s3 = {}
    /\ wPc = [w \in Workers |-> "poll"]
    /\ wFiles = [w \in Workers |-> {}]
    /\ wJob = [w \in Workers |-> NoJob]

\* no call of the engine is followed
NoEngine == engCall = NoCall /\ EngineIdle

\* one worker thread, as start_worker() starts it
Init ==
    /\ started = {"w1"}
    /\ requests = Jobs
    /\ aws \in BOOLEAN
    /\ InitStore
    /\ NoEngine

\* two worker threads and one request: two claim attempts on one descriptor
InitRace ==
    /\ started = Workers
    /\ requests = {1}
    /\ aws \in BOOLEAN
    /\ InitStore
    /\ NoEngine

\* the engine alone: two calls of run_simulation with the same arguments
InitEngine ==
    /\ started = {}
    /\ requests = {}
    /\ aws = FALSE
    /\ InitStore
    /\ engCall \in {[material |-> m, thickness |-> t, samples |-> n, seed |-> sd,
                      parallel |-> mode.parallel, n_workers |-> mode.n_workers,
                      cpu |-> mode.cpu] :
                        m \in EngMaterials, t \in EngThicknesses, n \in 1..MaxSamples,
                        sd \in EngSeeds, mode \in CallModes}
    /\ EngineIdle

\* the clock advances
Tick ==
    /\ now < MaxTime
    /\ now' = now + 1
    /\ UNCHANGED <<engVars, env, store, subVars, wVars, histVars, s3>>

\* lines 48-61: a request that fails validation is answered 400
SubmitReject(p, j) ==
    /\ RejectReason(p) # ""
    /\ subPc[j] = "idle"
    /\ subPc' = [subPc EXCEPT ![j] = "rejected"]
    /\ subObj' = [subObj EXCEPT ![j] = [payload |-> p, created_at |-> 0]]
    /\ UNCHANGED <<engVars, env, now, store, ddb, wVars, histVars, s3>>

\* lines 48-74: a valid request gets a fresh job id and builds job_obj
SubmitAccept(p, j) ==
    /\ RejectReason(p) = ""
    /\ subPc[j] = "idle"
    /\ subPc' = [subPc EXCEPT ![j] = "desc_open"]
    /\ subObj' = [subObj EXCEPT ![j] = [payload |-> p, created_at |-> now]]
    /\ UNCHANGED <<engVars, env, now, store, ddb, wVars, histVars, s3>>

\* line 75, write_json line 38: open(job_file_path(job_id), "w")
SubmitOpenDesc(j) ==
    /\ subPc[j] = "desc_open"
    /\ subPc' = [subPc EXCEPT ![j] = "desc_dump"]
    /\ jobsDir' = jobsDir \cup {j}
    /\ descFile' = [descFile EXCEPT ![j] = OpenW(NoDesc)]
    /\ ctime' = [ctime EXCEPT ![j] = now]
    /\ UNCHANGED <<engVars, env, now, procDir, statusDir, resultsDir, subObj, ddb,
                   wVars, histVars, s3>>

\* line 75, write_json line 39: json.dump and close. The bytes go to the
\* file the descriptor was opened on, whatever directory its name is in by
\* now; the write sets the ctime getctime reports for data/jobs/j.json.
SubmitDumpDesc(j) ==
    /\ subPc[j] = "desc_dump"
    /\ subPc' = [subPc EXCEPT ![j] = "st_open"]
    /\ descFile' = [descFile EXCEPT ![j] =
                       [state |-> "full", payload |-> subObj[j].payload,
                        created_at |-> subObj[j].created_at]]
    /\ ctime' = [ctime EXCEPT ![j] = IF j \in jobsDir THEN now ELSE @]
    /\ UNCHANGED <<engVars, env, now, jobsDir, procDir, statusDir, resultsDir, subObj, ddb,
                   wVars, histVars, s3>>

\* line 79, write_json line 38: open(status_file_path(job_id), "w")
SubmitOpenStatus(j) ==
    /\ subPc[j] = "st_open"
    /\ subPc' = [subPc EXCEPT ![j] = "st_dump"]
    /\ statusDir' = [statusDir EXCEPT ![j] = OpenW(NoStatus)]
    /\ UNCHANGED <<engVars, env, now, jobsDir, procDir, descFile, ctime, resultsDir, subObj,
                   ddb, wVars, histVars, s3>>

\* lines 78-79, write_json line 39: the queued record is flushed
SubmitDumpStatus(j) ==
    /\ subPc[j] = "st_dump"
    /\ subPc' = [subPc EXCEPT ![j] = "put_item"]
    /\ \E rec \in Dump(statusDir[j], StatusRecord("queued"), NoStatus) :
          /\ statusDir' = [statusDir EXCEPT ![j] = rec]
          /\ reached' = [reached EXCEPT ![j] = Max(@, Rank(rec.status))]
    /\ UNCHANGED <<engVars, env, now, jobsDir, procDir, descFile, ctime, resultsDir, subObj,
                   ddb, wVars, resultWrites, s3>>

\* (mutant) table.put_item is called outside the try: when the table does
\* not answer, the request ends with an error response
SubmitReturnFatal(j) ==
    /\ subPc[j] = "put_item"
    /\ subPc' = [subPc EXCEPT ![j] = IF aws THEN "returned" ELSE "rejected"]
    /\ subObj' = [subObj EXCEPT ![j] = NoObj]
    /\ ddb' = IF aws THEN ddb \cup {j} ELSE ddb
    /\ UNCHANGED <<engVars, env, now, store, wVars, histVars, s3>>

\* lines 81-94: table.put_item, whose failure is caught and printed, then
\* the 202 response with the job id; the request's locals are gone
SubmitReturn(j) ==
    /\ subPc[j] = "put_item"
    /\ subPc' = [subPc EXCEPT ![j] = "returned"]
    /\ subObj' = [subObj EXCEPT ![j] = NoObj]
    /\ ddb' = IF aws THEN ddb \cup {j} ELSE ddb
    /\ UNCHANGED <<engVars, env, now, store, wVars, histVars, s3>>

(* ---------------------------------------------------------------------- *)
(* app.py: worker_loop()                                                  *)
(* ---------------------------------------------------------------------- *)
\* (mutant) the handler leaves the loop: only a worker at "poll" polls again
AtLoopTopNoRetry(w) == wPc[w] = "poll"

\* wPc[w] is the statement worker w executes next. "poll" and "except" both
\* stand at the top of the loop (line 128): "except" when the last iteration
\* ended in the handler of lines 203-205, "poll" at the start, after the
\* empty-queue branch (lines 129-131) and after a completed job (line 201).
AtLoopTop(w) == wPc[w] \in {"poll", "except"}

\* (mutant) the descriptor is copied to data/processing, not moved
CopySource(dir, j) == dir

\* line 141: what os.rename(jobpath, procpath) leaves in data/jobs
RenameSource(dir, j) == dir \ {j}

\* lines 134-135: the files with the smallest getctime; list.sort is stable
\* and os.listdir returns the names in arbitrary order, so files[0] is any
\* of them when several share the smallest ctime
Oldest(files) == {j \in files : \A k \in files : ctime[j] <= ctime[k]}

\* (mutant) the done status is written before the result file is flushed
StepAfterDoneFirst(pc) ==
    CASE pc = "simulate" -> "upload"
      [] pc = "upload" -> "done_dump"
      [] pc = "done_dump" -> "res_dump"
      [] pc = "res_dump" -> "remove"
      [] pc = "remove" -> "poll"

\* the order of the statements after the simulation (lines 160-201)
StepAfter(pc) ==
    CASE pc = "simulate" -> "res_dump"
      [] pc = "res_dump" -> "upload"
      [] pc = "upload" -> "done_dump"
      [] pc = "done_dump" -> "remove"
      [] pc = "remove" -> "poll"

\* lines 128-131: os.listdir(jobs_dir); an empty list sleeps and continues
WorkerList(w) ==
    /\ AtLoopTop(w)
    /\ IF jobsDir = {}
       THEN /\ wPc' = [wPc EXCEPT ![w] = "poll"]
            /\ wFiles' = [wFiles EXCEPT ![w] = {}]
       ELSE /\ wPc' = [wPc EXCEPT ![w] = "sort"]
            /\ wFiles' = [wFiles EXCEPT ![w] = jobsDir]
    /\ wJob' = [wJob EXCEPT ![w] = NoJob]
    /\ UNCHANGED <<engVars, env, now, store, subVars, histVars, s3>>

\* lines 134-138: files.sort(key=getctime); getctime raises
\* FileNotFoundError for a listed file that is gone by now
WorkerSort(w) ==
    /\ wPc[w] = "sort"
    /\ IF wFiles[w] \subseteq jobsDir
       THEN \E j \in Oldest(wFiles[w]) :
               /\ wPc' = [wPc EXCEPT ![w] = "rename"]
               /\ wJob' = [wJob EXCEPT ![w] = j]
       ELSE /\ wPc' = [wPc EXCEPT ![w] = "except"]
            /\ wJob' = wJob
    /\ wFiles' = [wFiles EXCEPT ![w] = {}]
    /\ UNCHANGED <<engVars, env, now, store, subVars, histVars, s3>>

\* line 141: os.rename(jobpath, procpath); FileNotFoundError when the file
\* is no longer in data/jobs
WorkerRename(w) ==
    /\ wPc[w] = "rename"
    /\ IF wJob[w] \in jobsDir
       THEN /\ jobsDir' = RenameSource(jobsDir, wJob[w])
            /\ procDir' = procDir \cup {wJob[w]}
            /\ ctime' = [ctime EXCEPT ![wJob[w]] = 0]
            /\ wPc' = [wPc EXCEPT ![w] = "run_open"]
       ELSE /\ wPc' = [wPc EXCEPT ![w] = "except"]
            /\ UNCHANGED <<jobsDir, procDir, ctime>>
    /\ UNCHANGED <<engVars, env, now, descFile, statusDir, resultsDir, subVars, wFiles, wJob,
                   histVars, s3>>

\* lines 144-148, write_json line 38: open the status file for writing
WorkerOpenRunning(w) ==
    /\ wPc[w] = "run_open"
    /\ statusDir' = [statusDir EXCEPT ![wJob[w]] = OpenW(NoStatus)]
    /\ wPc' = [wPc EXCEPT ![w] = "run_dump"]
    /\ UNCHANGED <<engVars, env, now, jobsDir, procDir, descFile, ctime, resultsDir, subVars,
                   wFiles, wJob, histVars, s3>>

\* lines 144-148, write_json line 39: the running record is flushed
WorkerDumpRunning(w) ==
    /\ wPc[w] = "run_dump"
    /\ \E rec \in Dump(statusDir[wJob[w]], StatusRecord("running"), NoStatus) :
          /\ statusDir' = [statusDir EXCEPT ![wJob[w]] = rec]
          /\ reached' = [reached EXCEPT ![wJob[w]] = Max(@, Rank(rec.status))]
    /\ wPc' = [wPc EXCEPT ![w] = "read"]
    /\ UNCHANGED <<engVars, env, now, jobsDir, procDir, descFile, ctime, resultsDir, subVars,
                   wFiles, wJob, resultWrites, s3>>

\* lines 151-157: read_json(procpath); json.load raises on a file whose
\* content is not there yet
WorkerRead(w) ==
    /\ wPc[w] = "read"
    /\ wPc' = [wPc EXCEPT ![w] =
                  IF Readable(descFile[wJob[w]]) THEN "simulate" ELSE "except"]
    /\ UNCHANGED <<engVars, env, now, store, subVars, wFiles, wJob, histVars, s3>>

\* lines 160-183, write_json line 38: run_simulation, the plot (whose
\* failures are swallowed, lines 164-176), and the open of the result file.
\* raised: run_simulation or the open raised (no process for the pool, no
\* space on the device); nothing is written then.
WorkerSimulate(w, raised) ==
    /\ wPc[w] = "simulate"
    /\ IF raised
       THEN /\ wPc' = [wPc EXCEPT ![w] = "except"]
            /\ resultsDir' = resultsDir
       ELSE /\ wPc' = [wPc EXCEPT ![w] = StepAfter("simulate")]
            /\ resultsDir' = [resultsDir EXCEPT ![wJob[w]] = OpenW(NoResult)]
    /\ UNCHANGED <<engVars, env, now, jobsDir, procDir, descFile, ctime, statusDir, subVars,
                   wFiles, wJob, histVars, s3>>

\* lines 179-183, write_json line 39: result_meta is flushed
ResultMeta(j) ==
    [state |-> "full", material |-> descFile[j].payload.material,
     thickness |-> descFile[j].payload.thickness, samples |-> descFile[j].payload.samples,
     parallel_used |-> descFile[j].payload.parallel]

\* lines 186-191: s3.upload_file; a failure is caught and printed
Upload(w) == s3' = IF aws THEN s3 \cup {wJob[w]} ELSE s3

\* lines 194-198, write_json lines 38-39: the done record
OpenDone(w) == statusDir' = [statusDir EXCEPT ![wJob[w]] = OpenW(NoStatus)]

DumpDone(w) ==
    \E rec \in Dump(statusDir[wJob[w]], StatusRecord("done"), NoStatus) :
       /\ statusDir' = [statusDir EXCEPT ![wJob[w]] = rec]
       /\ reached' = [reached EXCEPT ![wJob[w]] = Max(@, Rank(rec.status))]

\* the statements of lines 179-201 are run in the order StepAfter gives
WorkerDumpResult(w) ==
    /\ wPc[w] = "res_dump"
    /\ resultsDir' = [resultsDir EXCEPT ![wJob[w]] = ResultMeta(wJob[w])]
    /\ resultWrites' = [resultWrites EXCEPT ![wJob[w]] = @ + 1]
    /\ wPc' = [wPc EXCEPT ![w] = StepAfter("res_dump")]
    /\ UNCHANGED <<engVars, env, now, jobsDir, procDir, descFile, ctime, statusDir, subVars,
                   wFiles, wJob, reached, s3>>

\* lines 186-194: the upload, then the open of the status file; raised: the
\* open raised
WorkerUpload(w, raised) ==
    /\ wPc[w] = "upload"
    /\ Upload(w)
    /\ IF raised
       THEN /\ wPc' = [wPc EXCEPT ![w] = "except"]
            /\ statusDir' = statusDir
       ELSE /\ wPc' = [wPc EXCEPT ![w] = StepAfter("upload")]
            /\ OpenDone(w)
    /\ UNCHANGED <<engVars, env, now, jobsDir, procDir, descFile, ctime, resultsDir, subVars,
                   wFiles, wJob, histVars>>

WorkerDumpDone(w) ==
    /\ wPc[w] = "done_dump"
    /\ DumpDone(w)
    /\ wPc' = [wPc EXCEPT ![w] = StepAfter("done_dump")]
    /\ UNCHANGED <<engVars, env, now, jobsDir, procDir, descFile, ctime, resultsDir, subVars,
                   wFiles, wJob, resultWrites, s3>>

\* (mutant) the finished descriptor is moved back to data/jobs
WorkerRequeue(w) ==
    /\ wPc[w] = "remove"
    /\ procDir' = procDir \ {wJob[w]}
    /\ jobsDir' = jobsDir \cup {wJob[w]}
    /\ wPc' = [wPc EXCEPT ![w] = StepAfter("remove")]
    /\ UNCHANGED <<engVars, env, now, descFile, ctime, statusDir, resultsDir, subVars, wFiles,
                   wJob, histVars, s3>>

\* line 201: os.remove(procpath)
WorkerRemove(w) ==
    /\ wPc[w] = "remove"
    /\ procDir' = procDir \ {wJob[w]}
    /\ descFile' = [descFile EXCEPT ![wJob[w]] = NoDesc]
    /\ wPc' = [wPc EXCEPT ![w] = StepAfter("remove")]
    /\ UNCHANGED <<engVars, env, now, jobsDir, ctime, statusDir, resultsDir, subVars, wFiles,
                   wJob, histVars, s3>>

Next ==
    \/ Tick
    \/ \E p \in Payloads, j \in requests : SubmitReject(p, j)
    \/ \E p \in Payloads, j \in requests : SubmitAccept(p, j)
    \/ \E j \in Jobs : SubmitOpenDesc(j)
    \/ \E j \in Jobs : SubmitDumpDesc(j)
    \/ \E j \in Jobs : SubmitOpenStatus(j)
    \/ \E j \in Jobs : SubmitDumpStatus(j)
    \/ \E j \in Jobs : SubmitReturn(j)
    \/ \E w \in started : WorkerList(w)
    \/ \E w \in started : WorkerSort(w)
    \/ \E w \in started : WorkerRename(w)
    \/ \E w \in started : WorkerOpenRunning(w)
    \/ \E w \in started : WorkerDumpRunning(w)
    \/ \E w \in started : WorkerRead(w)
    \/ \E w \in started, raised \in BOOLEAN : WorkerSimulate(w, raised)
    \/ \E w \in started : WorkerDumpResult(w)
    \/ \E w \in started, raised \in BOOLEAN : WorkerUpload(w, raised)
    \/ \E w \in started : WorkerDumpDone(w)
    \/ \E w \in started : WorkerRemove(w)

Spec == Init /\ [][Next]_vars

SpecRace == InitRace /\ [][Next]_vars

NextEngine ==
    \/ \E i \in Calls, entropy \in Entropy : EngineStart(i, entropy)
    \/ \E i \in Calls : EnginePool(i)
    \/ \E i \in Calls, entropy \in Entropy : EngineSingle(i, entropy)
    \/ \E i \in Calls : EngineFinish(i)

SpecEngine == InitEngine /\ [][NextEngine]_vars

(* ====================================================================== *)
(* Properties of the job queue                                            *)
(* ====================================================================== *)
\* worker w holds job j: it renamed the descriptor and is past line 141
Processing(w, j) ==
    /\ wJob[w] = j
    /\ wPc[w] \in {"run_open", "run_dump", "read", "simulate", "res_dump", "upload",
                   "done_dump", "remove"}

\* worker w lost the claim: the file it listed or picked is gone
ClaimLost(w) ==
    \/ wPc[w] = "sort" /\ ~(wFiles[w] \subseteq jobsDir)
    \/ wPc[w] = "rename" /\ wJob[w] \notin jobsDir

\* no two workers hold the same job
NeverBothProcess ==
    \A w1 \in started, w2 \in started, j \in Jobs :
        (Processing(w1, j) /\ Processing(w2, j)) => w1 = w2

\* C1: of two concurrent claim attempts on one queued descriptor, one gets
\* the descriptor, the other ends as "no job available" (the branch of lines
\* 129-131), not in the error handler, and never do both process the job.
C1_ClaimExclusivity ==
    /\ []NeverBothProcess
    /\ [][\A w \in started :
            (ClaimLost(w) /\ wPc'[w] # wPc[w]) => wPc'[w] = "poll"]_vars

\* C2 as stated: a result file exists exactly when the status is done.
C2_ResultIffDone ==
    \A j \in Jobs :
        /\ resultWrites[j] <= 1
        /\ (resultsDir[j].state # "none") <=> (StatusOf(j) = "done")

\* C2 as amended: a job has at most one result record, and whenever its
\* status is done the result record exists, completely written.
C2_DoneImpliesResult ==
    \A j \in Jobs :
        /\ resultWrites[j] <= 1
        /\ StatusOf(j) = "done" => Readable(resultsDir[j])

C2_Witness == \E j \in Jobs : StatusOf(j) = "done" /\ Readable(resultsDir[j])

\* C3: the status records of a job are written in the order queued, running,
\* done, each readable, and a result record exists whenever the status is
\* done.
C3_StatusOrder ==
    /\ [](\A j \in Jobs : StatusOf(j) = "done" => Readable(resultsDir[j]))
    /\ [][\A j \in Jobs :
            (statusDir'[j] # statusDir[j] /\ statusDir'[j].state # "empty") =>
                (Readable(statusDir'[j]) /\ Rank(statusDir'[j].status) = reached[j] + 1)]_vars

\* the requests the claim C4 says are rejected
Rejectable(p) ==
    \/ p.material \notin ALLOWED_MATERIALS
    \/ p.thickness \notin ALLOWED_THICKNESSES
    \/ p.samples \notin 1..MAX_SAMPLES

\* C4: a request with a material or thickness outside the allowed sets, or
\* with samples outside 1..MAX_SAMPLES, is answered with an error and no job
\* id, and the store is left as it was: no descriptor, no status record.
C4_RejectLeavesStoreUnchanged ==
    /\ [](\A j \in Jobs :
            /\ (subPc[j] \notin {"idle", "returned"} /\ Rejectable(subObj[j].payload)) =>
                   /\ Response(j) = [code |-> 400, job_id |-> NoJob]
                   /\ j \notin jobsDir \cup procDir
                   /\ descFile[j] = NoDesc /\ statusDir[j] = NoStatus
                   /\ resultsDir[j] = NoResult
            /\ Readable(descFile[j]) => ~Rejectable(descFile[j].payload))
    /\ [][\A j \in Jobs :
            (subPc[j] = "idle" /\ subPc'[j] # "idle" /\ Rejectable(subObj'[j].payload)) =>
                (subPc'[j] = "rejected" /\ UNCHANGED store)]_vars

C4_Witness ==
    \E j \in Jobs, k \in Jobs :
        /\ subPc[j] = "rejected" /\ subObj[j].payload.samples = MAX_SAMPLES + 1
        /\ subPc[k] = "returned"

\* C5: the worker never lists, claims or reads a descriptor whose content
\* is not completely written.
C5_EnqueueAtomic ==
    [][\A w \in started :
          /\ (AtLoopTop(w) /\ wPc'[w] = "sort") =>
                 \A j \in wFiles'[w] : Readable(descFile[j])
          /\ (wPc[w] = "rename" /\ wPc'[w] = "run_open") => Readable(descFile[wJob[w]])
          /\ (wPc[w] = "read" /\ wPc'[w] # "read") => Readable(descFile[wJob[w]])]_vars

\* C6: the descriptor of a job is never in the queued and in the claimed area
\* at once, and a descriptor enters the queued area only through the write of
\* its submission: once claimed it does not come back.
C6_QueuedXorClaimed ==
    /\ [](\A j \in Jobs : ~(j \in jobsDir /\ j \in procDir))
    /\ [][\A j \in Jobs :
            (j \notin jobsDir /\ j \in jobsDir') => subPc[j] = "desc_open"]_vars

C6_Witness == \E j \in Jobs : j \in procDir /\ j \notin jobsDir

\* C7: the result record of a job is flushed at most once, and once it is
\* written the file never changes.
C7_ResultWrittenOnce ==
    /\ [](\A j \in Jobs : resultWrites[j] <= 1)
    /\ [][\A j \in Jobs :
            Readable(resultsDir[j]) => resultsDir'[j] = resultsDir[j]]_vars

\* a job was finished and released, and a later iteration ended in the handler
C7_Witness ==
    \E j \in Jobs, w \in started :
        /\ resultWrites[j] = 1 /\ j \notin procDir
        /\ wPc[w] = "except" /\ wJob[w] # j /\ wJob[w] # NoJob

(* ====================================================================== *)
(* Properties of the engine                                               *)
(* ====================================================================== *)
\* the sizes of the chunks the i-th call made
ChunkSizes(i) == [k \in DOMAIN engLoc[i].chunks |-> engLoc[i].chunks[k][1]]
ChunksMade(i) == engCall.parallel /\ engPc[i] \in {"pool", "finish", "done"}

\* C8: in parallel mode the sizes of the chunks are samples div workerCount,
\* plus one for each of the first (samples mod workerCount) chunks: they sum
\* to samples, differ by at most 1, the larger ones come first, and 17
\* samples on 4 workers give <<5, 4, 4, 4>>.
C8_ChunkSplitting ==
    \A i \in Calls :
        ChunksMade(i) =>
            LET sizes == ChunkSizes(i)
                n == engLoc[i].n_workers
                samples == engCall.samples
            IN /\ \A k \in DOMAIN sizes :
                      sizes[k] = (samples \div n) + (IF k <= samples % n THEN 1 ELSE 0)
               /\ SumSeq(sizes) = samples
               /\ \A k \in DOMAIN sizes, l \in DOMAIN sizes :
                      /\ sizes[k] - sizes[l] <= 1
                      /\ k < l => sizes[k] >= sizes[l]
               /\ (samples = 17 /\ n = 4) => sizes = <<5, 4, 4, 4>>

C8_Witness ==
    \E i \in Calls :
        /\ ChunksMade(i) /\ engCall.samples = 17 /\ engLoc[i].n_workers = 4
        /\ ChunkSizes(i) = <<5, 4, 4, 4>>

\* C9: two sequential calls with the same arguments and the same seed (0
\* included) end the same way and return the same transmitted,
\* transmitted_fraction, bins and counts.
C9_SequentialDeterminism ==
    (/\ ~engCall.parallel /\ engCall.seed.given
     /\ \A i \in Calls : engPc[i] \in {"done", "raised"}) =>
        /\ engPc[1] = engPc[2]
        /\ engRes[1].transmitted = engRes[2].transmitted
        /\ engRes[1].transmitted_fraction = engRes[2].transmitted_fraction
        /\ engRes[1].bins = engRes[2].bins
        /\ engRes[1].counts = engRes[2].counts

C9_Witness ==
    /\ ~engCall.parallel /\ engCall.seed = Some(0) /\ engCall.samples = MaxSamples
    /\ \A i \in Calls : engPc[i] = "done" /\ engRes[i].transmitted > 0

\* C10: every result has 0 <= transmitted <= samples, 20 bin edges, 19
\* counts, none negative, and the counts sum to at most samples.
C10_ResultBounds ==
    \A i \in Calls :
        engPc[i] = "done" =>
            /\ engRes[i].transmitted >= 0 /\ engRes[i].transmitted <= engCall.samples
            /\ Len(engRes[i].bins) = 20
            /\ Len(engRes[i].counts) = 19
            /\ \A b \in DOMAIN engRes[i].counts : engRes[i].counts[b] >= 0
            /\ SumSeq(engRes[i].counts) <= engCall.samples

\* a parallel result in which a trial lies beyond the top edge
C10_Witness ==
    \E i \in Calls :
        /\ engPc[i] = "done" /\ engCall.parallel
        /\ SumSeq(engRes[i].counts) < engCall.samples
        /\ engRes[i].transmitted > 0

\* C11: a call whose material is not Aluminum, Lead or Water raises before a
\* chunk is made or a trial is drawn, and returns no result, in sequential
\* and in parallel mode.
C11_UnknownMaterialRaises ==
    \A i \in Calls :
        (engCall.material \notin {"Aluminum", "Lead", "Water"} /\ engPc[i] # "idle") =>
            /\ engPc[i] = "raised"
            /\ engLoc[i] = NoLoc
            /\ engRes[i] = NoRes

C11_Witness ==
    /\ engCall.material = "Gold" /\ engCall.parallel /\ engCall.seed = Some(1)
    /\ \A i \in Calls : engPc[i] = "raised"

(* ====================================================================== *)
(* Properties of the worker's failure and success paths                   *)
(* ====================================================================== *)
\* job j was claimed and the iteration that claimed it ended in the handler
\* of lines 203-205: its marker is there and no worker is working on it
Abandoned(j) == j \in procDir /\ \A w \in started : ~Processing(w, j)

\* the part of C12 that does not speak of the status record
AbandonedStays ==
    [][\A j \in Jobs :
          Abandoned(j) =>
              /\ j \in procDir' /\ j \notin jobsDir'
              /\ \A w \in started : ~Processing(w, j)'
              /\ resultWrites'[j] = resultWrites[j]
              /\ resultsDir'[j] = resultsDir[j]]_vars

\* C12: after an exception in the iteration that claimed a job, the marker is
\* never removed, the job is never queued or worked on again, its status is
\* never failed, and when the exception came before the result write there
\* is no result record, now or later, and the status stays running.
C12_FailurePath ==
    /\ AbandonedStays
    /\ [](\A j \in Jobs :
            /\ StatusOf(j) # "failed"
            /\ (Abandoned(j) /\ resultWrites[j] = 0) =>
                   /\ resultsDir[j] = NoResult
                   /\ StatusOf(j) = "running")

\* one step of worker thread w, whatever statement it is at
WorkerStep(w) ==
    \/ WorkerList(w)
    \/ WorkerSort(w)
    \/ WorkerRename(w)
    \/ WorkerOpenRunning(w)
    \/ WorkerDumpRunning(w)
    \/ WorkerRead(w)
    \/ \E raised \in BOOLEAN : WorkerSimulate(w, raised)
    \/ WorkerDumpResult(w)
    \/ \E raised \in BOOLEAN : WorkerUpload(w, raised)
    \/ WorkerDumpDone(w)
    \/ WorkerRemove(w)

\* The runs the progress of the worker is followed on: one worker thread, two
\* requests, each valid or with an unknown material, the AWS endpoints down.
InitLive ==
    /\ started = {"w1"}
    /\ requests = Jobs
    /\ aws = FALSE
    /\ InitStore
    /\ NoEngine

LivePayloads == {BasePayload, [BasePayload EXCEPT !.material = "Gold"]}

NextLive ==
    \/ Tick
    \/ \E p \in LivePayloads, j \in requests : SubmitReject(p, j)
    \/ \E p \in LivePayloads, j \in requests : SubmitAccept(p, j)
    \/ \E j \in Jobs : SubmitOpenDesc(j)
    \/ \E j \in Jobs : SubmitDumpDesc(j)
    \/ \E j \in Jobs : SubmitOpenStatus(j)
    \/ \E j \in Jobs : SubmitDumpStatus(j)
    \/ \E j \in Jobs : SubmitReturn(j)
    \/ \E w \in started : WorkerStep(w)

\* The worker is a daemon thread in `while True` (line 126) whose sleeps are
\* finite (lines 130, 205): a started thread that can take a step takes one.
\* Nothing is assumed of the clients.
SpecLive ==
    /\ InitLive
    /\ [][NextLive]_vars
    /\ \A w \in Workers : WF_vars(w \in started /\ WorkerStep(w))

\* C13: an iteration that ended in the handler is followed by a new poll, and
\* every descriptor in the queued area is claimed in the end, also when an
\* earlier job failed.
C13_EveryQueuedJobClaimed ==
    /\ \A w \in Workers : (w \in started /\ wPc[w] = "except") ~> (wPc[w] # "except")
    /\ \A j \in Jobs : (j \in jobsDir) ~> (j \in procDir)

\* a job was abandoned in the handler and the worker holds a later one
C13_Witness ==
    \E j \in Jobs, k \in Jobs, w \in started :
        j # k /\ Abandoned(j) /\ Processing(w, k)

\* job j went through the whole iteration: its result was flushed and its
\* marker removed (line 201 is the only statement that removes a marker)
Released(j) == resultWrites[j] >= 1 /\ j \notin procDir

\* C14: an iteration without an exception flushes status running, then the
\* result, then status done, then removes the marker; from then on the
\* result record exists, the status is done, and the job has neither a
\* descriptor nor a marker.
C14_SuccessPath ==
    /\ [][\A j \in Jobs :
            /\ resultWrites'[j] > resultWrites[j] => reached[j] = 2
            /\ (reached[j] < 3 /\ reached'[j] = 3) => Readable(resultsDir[j])
            /\ (j \in procDir /\ j \notin procDir') => StatusOf(j) = "done"]_vars
    /\ [](\A j \in Jobs :
            Released(j) =>
                /\ Readable(resultsDir[j])
                /\ StatusOf(j) = "done"
                /\ j \notin jobsDir /\ descFile[j] = NoDesc)

(* ====================================================================== *)
(* Properties of the order of claiming                                    *)
(* ====================================================================== *)
\* created_at of job j as submit() assigned it (line 65): in the descriptor
\* once it is flushed, in the request's job_obj before
CreatedAt(j) ==
    IF Readable(descFile[j]) THEN descFile[j].created_at ELSE subObj[j].created_at

\* the descriptor a worker claims has the smallest created_at of the queue
ClaimsSmallestCreatedAt ==
    [][\A w \in started :
          (wPc[w] = "rename" /\ wPc'[w] = "run_open") =>
              \A k \in jobsDir : CreatedAt(wJob[w]) <= CreatedAt(k)]_vars

\* C15: the descriptor a worker claims has the smallest created_at of the
\* descriptors in the queued area, and the choice among the listed files is
\* determined (one candidate) also when creation times tie.
C15_OldestFirst ==
    /\ ClaimsSmallestCreatedAt
    /\ [](\A w \in started :
            (wPc[w] = "sort" /\ wFiles[w] \subseteq jobsDir) =>
                Cardinality(Oldest(wFiles[w])) = 1)

(* ====================================================================== *)
(* Properties of the mirroring to DynamoDB and S3                         *)
(* ====================================================================== *)
\* C16: whether or not the hand-off to the external store fails, the
\* submission that reached it is answered 202 with its descriptor written
\* and the store untouched, and the worker's upload step keeps the result
\* record and the marker and goes on to the done status (it ends in the
\* handler only when opening the status file raised, the file untouched).
C16_MirrorNonFatal ==
    /\ [](~aws => (ddb = {} /\ s3 = {}))
    /\ [][/\ \A j \in Jobs :
              (subPc[j] = "put_item" /\ subPc'[j] # "put_item") =>
                  /\ subPc'[j] = "returned" /\ Response(j)' = [code |-> 202, job_id |-> j]
                  /\ UNCHANGED store
                  /\ \/ j \in jobsDir \cup procDir /\ Readable(descFile[j])
                     \/ Released(j)
          /\ \A w \in started :
              (wPc[w] = "upload" /\ wPc'[w] # "upload") =>
                  /\ UNCHANGED <<jobsDir, procDir, descFile, resultsDir, resultWrites>>
                  /\ Readable(resultsDir[wJob[w]])
                  /\ \/ wPc'[w] = "done_dump"
                     \/ wPc'[w] = "except" /\ statusDir' = statusDir]_vars

\* both hand-offs of a job failed, and the job is done and released
C16_Witness ==
    \E j \in Jobs :
        /\ ~aws /\ j \notin ddb /\ j \notin s3
        /\ subPc[j] = "returned" /\ Released(j)
        /\ StatusOf(j) = "done" /\ Readable(resultsDir[j])

(* ====================================================================== *)
(* Properties of the engine's seeds and worker count                      *)
(* ====================================================================== *)
\* the seeds of the chunks the i-th call made
ChunkSeeds(i) == [k \in DOMAIN engLoc[i].chunks |-> engLoc[i].chunks[k][2]]

\* C17: in parallel mode chunk i (from 0) runs with seed baseSeed + i; baseSeed
\* is the seed of the call whenever one is given, 0 included, and one random
\* value per call otherwise; two calls with the same given seed give their
\* chunks the same seeds.
C17_SeedLineage ==
    /\ \A i \in Calls :
          ChunksMade(i) =>
              LET seeds == ChunkSeeds(i)
              IN IF engCall.seed.given
                 THEN \A k \in DOMAIN seeds : seeds[k] = engCall.seed.value + (k - 1)
                 ELSE \E base \in Entropy :
                         \A k \in DOMAIN seeds : seeds[k] = base + (k - 1)
    /\ (engCall.seed.given /\ \A i \in Calls : ChunksMade(i)) =>
           ChunkSeeds(1) = ChunkSeeds(2)

\* C18: the workers field of a result is the number of units that ran: 1 in
\* sequential mode, the number of (non-empty) chunks in parallel mode.
C18_WorkersActuallyUsed ==
    \A i \in Calls :
        engPc[i] = "done" =>
            engRes[i].workers =
                IF engCall.parallel THEN Len(engLoc[i].chunks) ELSE 1

(* ====================================================================== *)
(* Properties of the status record under interleaving                     *)
(* ====================================================================== *)
\* C19: the status of a job never moves backwards: once running was written
\* the status is never queued again, and once it is done it stays done.
C19_StatusNeverBackwards ==
    [][\A j \in Jobs :
          /\ reached[j] >= 2 => StatusOf(j)' # "queued"
          /\ StatusOf(j) = "done" => StatusOf(j)' = "done"]_vars

====
